---- MODULE Spec2Model ----
(***************************************************************************)
(* Model of the MicroPython driver mb_23LC1024 (src/mb_23LC1024.py) for    *)
(* the Microchip 23LC1024 SPI SRAM: the constructor, write_byte and        *)
(* read_byte, statement by statement, together with the chip-select pin,   *)
(* the SPI bus and the chip at the other end of the bus.                   *)
(***************************************************************************)
EXTENDS Integers, Sequences, FiniteSets, TLC

(***************************************************************************)
(* Instruction set, mode bytes and address limit of the driver.            *)
(***************************************************************************)
_READ == 3
_WRITE == 2
_EDIO == 59
_EQIO == 56
_RSTIO == 255
_RDMR == 5
_WRMR == 1
_MODE_BYTE == 0
_MODE_PAGE == 64
_MODE_SEQ == 192
_MAX_ADDRESS == 131071

(***************************************************************************)
(* Inputs the callers draw from.  The addresses hold both ends of the      *)
(* range, both neighbours outside it, and two addresses (500 and           *)
(* 66036 = 65536 + 500) that differ only in the most significant byte.     *)
(***************************************************************************)
ValidAddresses == {0, 500, 66036, 131071}
InvalidAddresses == {-1, 131072}
Addresses == ValidAddresses \cup InvalidAddresses
ValidData == {0, 38, 255}
InvalidData == {-1, 256}
Data == ValidData \cup InvalidData
\* inputs of the runs with several callers
ConcAddresses == {0, 131071}
ConcData == {38}
\* inputs of the runs with several callers under the mutex
MutexData == {38, 255}
\* what the MISO line can deliver when the chip does not drive it
FloatingBytes == {0, 255}
\* the callers (threads) of the device; caller 1 constructs it
MainCaller == "main"
OtherCaller == "worker"
Callers == {MainCaller, OtherCaller}

(***************************************************************************)
(* Python integer operators used by the driver.                            *)
(***************************************************************************)
RECURSIVE BitAnd(_, _)
\* x & y for y >= 0 (two's complement of unbounded width, as in Python)
BitAnd(x, y) ==
    IF y = 0 THEN 0
    ELSE (x % 2) * (y % 2) + 2 * BitAnd(x \div 2, y \div 2)

\* x >> n
ShiftRight(x, n) == x \div (2 ^ n)

RECURSIVE FromBytesBig(_)
\* int.from_bytes(b, "big")
FromBytesBig(b) ==
    IF b = << >> THEN 0
    ELSE 256 * FromBytesBig(SubSeq(b, 1, Len(b) - 1)) + b[Len(b)]

\* bytearray(list) accepts only elements in range(256)
ByteArrayOk(list) == \A i \in 1..Len(list) : list[i] >= 0 /\ list[i] <= 255

(***************************************************************************)
(* Validation and address encoding of write_byte and read_byte.            *)
(***************************************************************************)
\* variant: the upper limit is off by one
WriteAddressOffByOne(address) == (address > 131072) \/ (address < 0)

WriteAddressOutOfRange(address) == (address > 131071) \/ (address < 0)

\* variant: the upper limit is off by one
WriteDataOffByOne(data) == (data > 256) \/ (data < 0)

WriteDataOutOfRange(data) == (data > 255) \/ (data < 0)

ReadAddressOutOfRange(address) == (address > 131071) \/ (address < 0)

\* variant: the middle byte is shifted by 16 instead of 8
WriteAddressByteMidShift(address) ==
    << ShiftRight(BitAnd(address, 16711680), 16),
       ShiftRight(BitAnd(address, 65280), 16),
       BitAnd(address, 255) >>

\* variant: the most significant byte is never filled in
WriteAddressByteNoHigh(address) ==
    << 0,
       ShiftRight(BitAnd(address, 65280), 8),
       BitAnd(address, 255) >>

\* address_byte[0..2] of write_byte, as the 1-indexed sequence <<[0],[1],[2]>>
WriteAddressByte(address) ==
    << ShiftRight(BitAnd(address, 16711680), 16),
       ShiftRight(BitAnd(address, 65280), 8),
       BitAnd(address, 255) >>

\* variant: the bytes are stored least significant first
ReadAddressByteReversed(address) ==
    << BitAnd(address, 255),
       ShiftRight(BitAnd(address, 65280), 8),
       ShiftRight(BitAnd(address, 16711680), 16) >>

\* address_byte[0..2] of read_byte
ReadAddressByte(address) ==
    << ShiftRight(BitAnd(address, 16711680), 16),
       ShiftRight(BitAnd(address, 65280), 8),
       BitAnd(address, 255) >>

\* variant: the address bytes go out least significant first
WriteFrameLittleEndian(address_byte, data) ==
    << _WRITE, address_byte[3], address_byte[2], address_byte[1], data >>

WriteFrame(address_byte, data) ==
    << _WRITE, address_byte[1], address_byte[2], address_byte[3], data >>

\* variant: a 16-bit address header
ReadFrameShort(address_byte) ==
    << _READ, address_byte[2], address_byte[3] >>

\* variant: the header carries the read-mode-register instruction
ReadFrameRdmr(address_byte) ==
    << _RDMR, address_byte[1], address_byte[2], address_byte[3] >>

ReadFrame(address_byte) ==
    << _READ, address_byte[1], address_byte[2], address_byte[3] >>

\* variant: the mode byte selects sequential mode
ModeFrameSeq == << _WRMR, _MODE_SEQ >>

ModeFrame == << _WRMR, 0 >>

ErrAddressWrite == "ValueError: Address is outside of device address range (0 to 131071)"
ErrDataWrite == "ValueError: You can only pass an 8-bit data value (0-255) to this function"
ErrAddressRead == "ValueError: Address is outside of device address range (0 to 131071 (0x1ffff))"
ErrByteArray == "ValueError: byte must be in range(0, 256)"
ErrFromBytes == "TypeError: object with buffer protocol required"

VARIABLES
    cs,          \* level of the /CS pin
    constructed, \* __init__ has returned: the device object exists
    slept,       \* microseconds waited by the constructor after the mode set
    value_read,  \* the device attribute self.value_read
    pc,          \* per caller: the statement it is about to execute
    op,          \* per caller: the method it is in or was last in
    address,     \* per caller: argument address
    data,        \* per caller: argument data
    address_byte,\* per caller: the local list address_byte
    result,      \* per caller: outcome of its last call
    trace,       \* per caller: pin and bus events it issued in its current call
    window,      \* pin and bus events of all callers since /CS last went low
    chipActive,  \* the chip has seen a high-to-low edge on /CS since power-up
    chipMode,    \* the chip's MODE register
    mem,         \* the chip's cells that were written since power-up
    fill,        \* content of the cells never written
    lastWritten, \* per address: data of the last write_byte that returned
    lock         \* holder of the application's mutex, "free" when free

vars == << cs, constructed, slept, value_read, pc, op, address, data,
           address_byte, result, trace, window, chipActive, chipMode, mem,
           fill, lastWritten, lock >>

devVars == << constructed, slept, value_read >>
chipVars == << chipActive, chipMode, mem, fill >>
argVars == << op, address, data, address_byte >>

(***************************************************************************)
(* Events on the pin and the bus.                                          *)
(***************************************************************************)
PinEvent(t, level) == [by |-> t, kind |-> "cs", bytes |-> << level >>]
SpiWriteEvent(t, buf) == [by |-> t, kind |-> "write", bytes |-> buf]
SpiReadEvent(t, buf) == [by |-> t, kind |-> "read", bytes |-> buf]

CsLow(t) == PinEvent(t, 0)
CsHigh(t) == PinEvent(t, 1)

(***************************************************************************)
(* The chip.  While /CS is low it clocks in the bytes of every transfer    *)
(* (spi.read clocks out 0x00 per byte read).  Byte 1 is the instruction,   *)
(* bytes 2..4 the 24-bit address of which the upper 7 bits are ignored,    *)
(* and from byte 5 on data moves; in byte mode only byte 5 does.           *)
(***************************************************************************)
RECURSIVE Zeros(_)
Zeros(n) == IF n = 0 THEN << >> ELSE << 0 >> \o Zeros(n - 1)

\* bytes an event clocks into the chip
Clocked(e) ==
    IF e.kind = "write" THEN e.bytes
    ELSE IF e.kind = "read" THEN Zeros(Len(e.bytes))
    ELSE << >>

RECURSIVE Stream(_)
\* bytes the chip has clocked in during the current /CS-low window
Stream(w) ==
    IF w = << >> THEN << >>
    ELSE Stream(SubSeq(w, 1, Len(w) - 1)) \o Clocked(w[Len(w)])

\* the chip's 17-bit cell address out of the 3 address bytes received
ChipAddress(s) == ((s[2] % 2) * 65536) + (s[3] * 256) + s[4]

\* the cell a data byte at stream position p (p >= 5) goes to or comes from
ChipCell(s, p) == (ChipAddress(s) + (p - 5)) % 131072

\* in byte mode only the first data byte of a transaction moves
ChipMoves(mode, p) == p = 5 \/ BitAnd(mode, 192) # _MODE_BYTE

MemAt(m, f, a) == IF a \in DOMAIN m THEN m[a] ELSE f

RECURSIVE ChipStore(_, _, _, _, _)
\* memory after the chip has clocked in stream positions from..Len(s)
ChipStore(m, mode, s, from, to) ==
    IF from > to THEN m
    ELSE LET m1 == IF from >= 5 /\ s[1] = _WRITE /\ ChipMoves(mode, from)
                   THEN [a \in DOMAIN m \cup {ChipCell(s, from)} |->
                            IF a = ChipCell(s, from) THEN s[from] ELSE m[a]]
                   ELSE m
         IN ChipStore(m1, mode, s, from + 1, to)

\* MODE register after the chip has clocked in s, having had n bytes before
ChipModeAfter(mode, s, n) ==
    IF n < 2 /\ Len(s) >= 2 /\ s[1] = _WRMR THEN s[2] ELSE mode

\* the chip drives MISO at stream position p with the content of a cell
ChipDrives(active, level, mode, s, p) ==
    /\ active
    /\ level = 0
    /\ p >= 5
    /\ Len(s) >= 4
    /\ s[1] = _READ
    /\ ChipMoves(mode, p)

(***************************************************************************)
(* Pin.value(level), SPI.write(buf) and SPI.read(n) as caller t sees them. *)
(***************************************************************************)
Log(t, e) == trace' = [trace EXCEPT ![t] = Append(@, e)]

PinValue(t, level) ==
    /\ cs' = level
    /\ Log(t, PinEvent(t, level))
    /\ window' = IF level = 1 THEN << >> ELSE Append(window, PinEvent(t, level))
    /\ chipActive' = (chipActive \/ (cs = 1 /\ level = 0))
    /\ UNCHANGED << chipMode, mem, fill >>

\* what the chip does with the bytes one transfer clocks in
ChipClock(clocked) ==
    IF cs = 0 /\ chipActive
    THEN LET s0 == Stream(window)
             s1 == s0 \o clocked
         IN /\ mem' = ChipStore(mem, chipMode, s1, Len(s0) + 1, Len(s1))
            /\ chipMode' = ChipModeAfter(chipMode, s1, Len(s0))
    ELSE UNCHANGED << mem, chipMode >>

SpiWrite(t, buf) ==
    /\ Log(t, SpiWriteEvent(t, buf))
    /\ window' = IF cs = 0 THEN Append(window, SpiWriteEvent(t, buf)) ELSE window
    /\ ChipClock(buf)
    /\ UNCHANGED << cs, chipActive, fill >>

\* the bytes SPI.read(1) can return
SpiReadable ==
    LET s0 == Stream(window)
    IN IF ChipDrives(chipActive, cs, chipMode, s0, Len(s0) + 1)
       THEN {<< MemAt(mem, fill, ChipCell(s0, Len(s0) + 1)) >>}
       ELSE {<< b >> : b \in FloatingBytes}

SpiRead(t, got) ==
    /\ got \in SpiReadable
    /\ Log(t, SpiReadEvent(t, got))
    /\ window' = IF cs = 0 THEN Append(window, SpiReadEvent(t, got)) ELSE window
    /\ ChipClock(Zeros(Len(got)))
    /\ UNCHANGED << cs, chipActive, fill >>

(***************************************************************************)
(* Outcomes of a call.                                                     *)
(***************************************************************************)
NoValue == [kind |-> "unset", v |-> << >>]
Tuple0 == [kind |-> "tuple", v |-> << >>]
BytesValue(b) == [kind |-> "bytes", v |-> b]
IntValue(n) == [kind |-> "int", v |-> << n >>]

Running == [status |-> "running", value |-> NoValue, error |-> ""]
Returned(val) == [status |-> "returned", value |-> val, error |-> ""]
Raised(e) == [status |-> "raised", value |-> NoValue, error |-> e]
NoCall == [status |-> "none", value |-> NoValue, error |-> ""]

Goto(t, label) == pc' = [pc EXCEPT ![t] = label]

Raise(t, e) ==
    /\ Goto(t, "idle")
    /\ result' = [result EXCEPT ![t] = Raised(e)]

(***************************************************************************)
(* __init__(self, spi, cs)                                                 *)
(***************************************************************************)
Init79(t) ==
    /\ pc[t] = "i79"
    /\ Goto(t, "i86")
    /\ UNCHANGED << cs, devVars, argVars, result, trace, window, chipVars,
                    lastWritten, lock >>

Init86(t) ==
    /\ pc[t] = "i86"
    /\ PinValue(t, 1)
    /\ Goto(t, "i87")
    /\ UNCHANGED << devVars, argVars, result, lastWritten, lock >>

Init87(t) ==
    /\ pc[t] = "i87"
    /\ PinValue(t, 0)
    /\ Goto(t, "i88")
    /\ UNCHANGED << devVars, argVars, result, lastWritten, lock >>

Init88(t) ==
    /\ pc[t] = "i88"
    /\ PinValue(t, 1)
    /\ Goto(t, "i91")
    /\ UNCHANGED << devVars, argVars, result, lastWritten, lock >>

Init91(t) ==
    /\ pc[t] = "i91"
    /\ PinValue(t, 0)
    /\ Goto(t, "i92")
    /\ UNCHANGED << devVars, argVars, result, lastWritten, lock >>

Init92(t) ==
    /\ pc[t] = "i92"
    /\ SpiWrite(t, ModeFrame)
    /\ Goto(t, "i93")
    /\ UNCHANGED << devVars, argVars, result, lastWritten, lock >>

Init93(t) ==
    /\ pc[t] = "i93"
    /\ PinValue(t, 1)
    /\ Goto(t, "i94")
    /\ UNCHANGED << devVars, argVars, result, lastWritten, lock >>

\* variant: the constructor returns without the settle delay
Init94NoSleep(t) ==
    /\ pc[t] = "i94"
    /\ constructed' = TRUE
    /\ Goto(t, "idle")
    /\ result' = [result EXCEPT ![t] = Returned(NoValue)]
    /\ UNCHANGED << cs, slept, value_read, argVars, trace, window, chipVars,
                    lastWritten, lock >>

Init94(t) ==
    /\ pc[t] = "i94"
    /\ slept' = 50
    /\ constructed' = TRUE
    /\ Goto(t, "idle")
    /\ result' = [result EXCEPT ![t] = Returned(NoValue)]
    /\ UNCHANGED << cs, value_read, argVars, trace, window, chipVars,
                    lastWritten, lock >>

(***************************************************************************)
(* write_byte(self, address, data)                                         *)
(***************************************************************************)
Enter(t, method, a, d) ==
    /\ constructed
    /\ pc[t] = "idle"
    /\ op' = [op EXCEPT ![t] = method]
    /\ address' = [address EXCEPT ![t] = a]
    /\ data' = [data EXCEPT ![t] = d]
    /\ address_byte' = [address_byte EXCEPT ![t] = << >>]
    /\ result' = [result EXCEPT ![t] = Running]
    /\ trace' = [trace EXCEPT ![t] = << >>]
    /\ UNCHANGED << cs, devVars, window, chipVars, lastWritten >>

write_byte(t, a, d) ==
    /\ Enter(t, "write_byte", a, d)
    /\ Goto(t, "w99")

\* variant: the data is checked before the address
Write99DataFirst(t) ==
    /\ pc[t] = "w99"
    /\ IF WriteDataOutOfRange(data[t])
       THEN Raise(t, ErrDataWrite)
       ELSE IF WriteAddressOutOfRange(address[t])
            THEN Raise(t, ErrAddressWrite)
            ELSE Goto(t, "w103") /\ UNCHANGED result
    /\ UNCHANGED << cs, devVars, argVars, trace, window, chipVars,
                    lastWritten, lock >>

Write99(t) ==
    /\ pc[t] = "w99"
    /\ IF WriteAddressOutOfRange(address[t])
       THEN Raise(t, ErrAddressWrite)
       ELSE Goto(t, "w103") /\ UNCHANGED result
    /\ UNCHANGED << cs, devVars, argVars, trace, window, chipVars,
                    lastWritten, lock >>

Write103(t) ==
    /\ pc[t] = "w103"
    /\ IF WriteDataOutOfRange(data[t])
       THEN Raise(t, ErrDataWrite)
       ELSE Goto(t, "w109") /\ UNCHANGED result
    /\ UNCHANGED << cs, devVars, argVars, trace, window, chipVars,
                    lastWritten, lock >>

Write109(t) ==
    /\ pc[t] = "w109"
    /\ address_byte' = [address_byte EXCEPT ![t] = WriteAddressByte(address[t])]
    /\ Goto(t, "w116")
    /\ UNCHANGED << cs, devVars, op, address, data, result, trace, window,
                    chipVars, lastWritten, lock >>

\* variant: the caller waits for /CS to be high before it asserts it
Write116Waits(t) ==
    /\ pc[t] = "w116"
    /\ cs = 1
    /\ PinValue(t, 0)
    /\ Goto(t, "w118")
    /\ UNCHANGED << devVars, argVars, result, lastWritten, lock >>

Write116(t) ==
    /\ pc[t] = "w116"
    /\ PinValue(t, 0)
    /\ Goto(t, "w118")
    /\ UNCHANGED << devVars, argVars, result, lastWritten, lock >>

Write118(t) ==
    /\ pc[t] = "w118"
    /\ IF ByteArrayOk(WriteFrame(address_byte[t], data[t]))
       THEN /\ SpiWrite(t, WriteFrame(address_byte[t], data[t]))
            /\ Goto(t, "w120")
            /\ UNCHANGED result
       ELSE /\ Raise(t, ErrByteArray)
            /\ UNCHANGED << cs, trace, window, chipVars >>
    /\ UNCHANGED << devVars, argVars, lastWritten, lock >>

\* variant: the method returns without deasserting /CS
Write120NoDeassert(t) ==
    /\ pc[t] = "w120"
    /\ Goto(t, "idle")
    /\ result' = [result EXCEPT ![t] = Returned(Tuple0)]
    /\ lastWritten' = [a \in DOMAIN lastWritten \cup {address[t]} |->
                          IF a = address[t] THEN data[t] ELSE lastWritten[a]]
    /\ UNCHANGED << cs, trace, window, chipVars, devVars, argVars, lock >>

Write120(t) ==
    /\ pc[t] = "w120"
    /\ PinValue(t, 1)
    /\ Goto(t, "idle")
    /\ result' = [result EXCEPT ![t] = Returned(Tuple0)]
    /\ lastWritten' = [a \in DOMAIN lastWritten \cup {address[t]} |->
                          IF a = address[t] THEN data[t] ELSE lastWritten[a]]
    /\ UNCHANGED << devVars, argVars, lock >>

(***************************************************************************)
(* read_byte(self, address)                                                *)
(***************************************************************************)
read_byte(t, a) ==
    /\ Enter(t, "read_byte", a, 0)
    /\ Goto(t, "r125")

Read125(t) ==
    /\ pc[t] = "r125"
    /\ IF ReadAddressOutOfRange(address[t])
       THEN Raise(t, ErrAddressRead)
       ELSE Goto(t, "r129") /\ UNCHANGED result
    /\ UNCHANGED << cs, devVars, argVars, trace, window, chipVars,
                    lastWritten, lock >>

Read129(t) ==
    /\ pc[t] = "r129"
    /\ address_byte' = [address_byte EXCEPT ![t] = ReadAddressByte(address[t])]
    /\ Goto(t, "r135")
    /\ UNCHANGED << cs, devVars, op, address, data, result, trace, window,
                    chipVars, lastWritten, lock >>

\* variant: /CS is driven high instead of low before the header
Read135High(t) ==
    /\ pc[t] = "r135"
    /\ PinValue(t, 1)
    /\ Goto(t, "r137")
    /\ UNCHANGED << devVars, argVars, result, lastWritten, lock >>

Read135(t) ==
    /\ pc[t] = "r135"
    /\ PinValue(t, 0)
    /\ Goto(t, "r137")
    /\ UNCHANGED << devVars, argVars, result, lastWritten, lock >>

Read137(t) ==
    /\ pc[t] = "r137"
    /\ IF ByteArrayOk(ReadFrame(address_byte[t]))
       THEN /\ SpiWrite(t, ReadFrame(address_byte[t]))
            /\ Goto(t, "r139")
            /\ UNCHANGED result
       ELSE /\ Raise(t, ErrByteArray)
            /\ UNCHANGED << cs, trace, window, chipVars >>
    /\ UNCHANGED << devVars, argVars, lastWritten, lock >>

Read139(t) ==
    /\ pc[t] = "r139"
    /\ \E got \in SpiReadable :
          /\ SpiRead(t, got)
          /\ value_read' = BytesValue(got)
    /\ Goto(t, "r141")
    /\ UNCHANGED << constructed, slept, argVars, result, lastWritten, lock >>

Read141(t) ==
    /\ pc[t] = "r141"
    /\ PinValue(t, 1)
    /\ Goto(t, "r143")
    /\ UNCHANGED << devVars, argVars, result, lastWritten, lock >>

Read143(t) ==
    /\ pc[t] = "r143"
    /\ IF value_read.kind = "bytes"
       THEN /\ value_read' = IntValue(FromBytesBig(value_read.v))
            /\ Goto(t, "r145")
            /\ UNCHANGED result
       ELSE /\ Raise(t, ErrFromBytes)
            /\ UNCHANGED value_read
    /\ UNCHANGED << cs, constructed, slept, argVars, trace, window, chipVars,
                    lastWritten, lock >>

Read145(t) ==
    /\ pc[t] = "r145"
    /\ Goto(t, "idle")
    /\ result' = [result EXCEPT ![t] = Returned(value_read)]
    /\ UNCHANGED << cs, devVars, argVars, trace, window, chipVars,
                    lastWritten, lock >>

(***************************************************************************)
(* The statements of the two methods, and the constructor's.               *)
(***************************************************************************)
WriteStep(t) ==
    \/ Write99(t) \/ Write103(t) \/ Write109(t)
    \/ Write116(t) \/ Write118(t) \/ Write120(t)

ReadStep(t) ==
    \/ Read125(t) \/ Read129(t) \/ Read135(t) \/ Read137(t)
    \/ Read139(t) \/ Read141(t) \/ Read143(t) \/ Read145(t)

InitStep(t) ==
    \/ Init79(t) \/ Init86(t) \/ Init87(t) \/ Init88(t)
    \/ Init91(t) \/ Init92(t) \/ Init93(t) \/ Init94(t)

(***************************************************************************)
(* One thread that constructs the device and then calls it.                *)
(***************************************************************************)
Init ==
    /\ cs \in {0, 1}
    /\ constructed = FALSE
    /\ slept = 0
    /\ value_read = NoValue
    /\ pc = [t \in Callers |-> IF t = MainCaller THEN "i79" ELSE "idle"]
    /\ op = [t \in Callers |-> IF t = MainCaller THEN "__init__" ELSE "none"]
    /\ address = [t \in Callers |-> 0]
    /\ data = [t \in Callers |-> 0]
    /\ address_byte = [t \in Callers |-> << >>]
    /\ result = [t \in Callers |-> IF t = MainCaller THEN Running ELSE NoCall]
    /\ trace = [t \in Callers |-> << >>]
    /\ window = << >>
    /\ chipActive = FALSE
    /\ chipMode \in {_MODE_PAGE, _MODE_SEQ}
    /\ mem = << >>
    /\ fill \in FloatingBytes
    /\ lastWritten = << >>
    /\ lock = "free"

CallWrite == \E a \in Addresses, d \in Data :
                write_byte(MainCaller, a, d) /\ UNCHANGED lock

CallRead == \E a \in Addresses : read_byte(MainCaller, a) /\ UNCHANGED lock

Next ==
    \/ InitStep(MainCaller)
    \/ CallWrite
    \/ CallRead
    \/ WriteStep(MainCaller)
    \/ ReadStep(MainCaller)

Spec == Init /\ [][Next]_vars

(***************************************************************************)
(* Properties of the single-threaded program.                              *)
(***************************************************************************)
InRange(a) == a >= 0 /\ a <= _MAX_ADDRESS
IsByte(d) == d >= 0 /\ d <= 255

\* the 3 address bytes by division, most significant first
BigEndian3(a) == << a \div 65536, (a \div 256) % 256, a % 256 >>

\* caller t has come back from a call of method m that returned normally
Came(t, m) == pc[t] = "idle" /\ op[t] = m /\ result[t].status = "returned"

\* caller t has come back from a call of method m that raised e
Failed(t, m, e) ==
    pc[t] = "idle" /\ op[t] = m /\ result[t] = Raised(e)

\* C1: a read_byte(a) that returns after a write_byte(a, v) returned, with no
\* other write_byte to a since, returns v.
C1_RoundTrip ==
    \A t \in Callers :
        (Came(t, "read_byte") /\ address[t] \in DOMAIN lastWritten)
            => result[t].value = IntValue(lastWritten[address[t]])

C1_Witness ==
    /\ Came(MainCaller, "read_byte")
    /\ address[MainCaller] = 131071
    /\ 131071 \in DOMAIN lastWritten
    /\ lastWritten[131071] = 38
    /\ 0 \in DOMAIN lastWritten
    /\ lastWritten[0] = 255
    /\ result[MainCaller].value = IntValue(38)

\* C2: a write_byte or read_byte with an address outside 0..131071 never gets
\* past its address check, issues no pin or bus event, leaves /CS high and
\* ends in the address-range error of its method.
C2_AddressRejected ==
    \A t \in Callers :
        (op[t] \in {"write_byte", "read_byte"} /\ ~InRange(address[t]))
            => /\ pc[t] \in {"w99", "r125", "idle"}
               /\ trace[t] = << >>
               /\ window = << >>
               /\ cs = 1
               /\ pc[t] = "idle" =>
                     \/ Failed(t, "write_byte", ErrAddressWrite)
                     \/ Failed(t, "read_byte", ErrAddressRead)

C2_Witness ==
    /\ Failed(MainCaller, "write_byte", ErrAddressWrite)
    /\ address[MainCaller] = 131072
    /\ data[MainCaller] = 38
    /\ trace[MainCaller] = << >>
    /\ cs = 1

\* C3: a write_byte with a valid address and a value outside 0..255 never gets
\* past its value check, issues no pin or bus event, leaves /CS high and ends
\* in the value-range error; with a value in 0..255 it returns normally.
C3_DataRejected ==
    \A t \in Callers :
        (op[t] = "write_byte" /\ InRange(address[t]))
            => /\ ~IsByte(data[t]) =>
                     /\ pc[t] \in {"w99", "w103", "idle"}
                     /\ trace[t] = << >>
                     /\ window = << >>
                     /\ cs = 1
                     /\ pc[t] = "idle" => Failed(t, "write_byte", ErrDataWrite)
               /\ (IsByte(data[t]) /\ pc[t] = "idle") => Came(t, "write_byte")

C3_Witness ==
    /\ Failed(MainCaller, "write_byte", ErrDataWrite)
    /\ address[MainCaller] = 500
    /\ data[MainCaller] = 256
    /\ trace[MainCaller] = << >>
    /\ 0 \in DOMAIN lastWritten
    /\ lastWritten[0] = 255
    /\ 500 \in DOMAIN lastWritten
    /\ lastWritten[500] = 0

\* the pin and bus events of the constructor
InitTrace(t) ==
    << CsHigh(t), CsLow(t), CsHigh(t),
       CsLow(t), SpiWriteEvent(t, << 1, 0 >>), CsHigh(t) >>

IsPrefix(s, r) == Len(s) <= Len(r) /\ s = SubSeq(r, 1, Len(s))

\* an event that is a read or write transaction of the memory
IsAccess(e) ==
    \/ e.kind = "read"
    \/ e.kind = "write" /\ e.bytes[1] \in {_READ, _WRITE}

\* C5: the constructor's events are exactly /CS high, low, high, then /CS low,
\* one bus write of [0x01, 0x00], /CS high; while it runs its events are a
\* prefix of that; and no caller has issued a read or write transaction, or
\* entered a method, before the constructor has returned.
C5_Construction ==
    /\ op[MainCaller] = "__init__" =>
          /\ IsPrefix(trace[MainCaller], InitTrace(MainCaller))
          /\ constructed => trace[MainCaller] = InitTrace(MainCaller)
    /\ ~constructed =>
          \A t \in Callers :
             /\ \A i \in 1..Len(trace[t]) : ~IsAccess(trace[t][i])
             /\ op[t] \in {"__init__", "none"}
    /\ (\E t \in Callers : op[t] \in {"write_byte", "read_byte"}) =>
          /\ constructed
          /\ chipActive
          /\ chipMode = _MODE_BYTE

C5_Witness ==
    /\ constructed
    /\ op[MainCaller] = "__init__"
    /\ pc[MainCaller] = "idle"
    /\ trace[MainCaller] = InitTrace(MainCaller)
    /\ cs = 1
    /\ chipMode = _MODE_BYTE

\* C6: a write_byte(a, v) that returned has issued exactly /CS low, one bus
\* write of the 5 bytes [0x02, a div 65536, (a div 256) mod 256, a mod 256, v],
\* /CS high, in that order.
C6_WriteTrace ==
    \A t \in Callers :
        Came(t, "write_byte") =>
            trace[t] = << CsLow(t),
                          SpiWriteEvent(t, << 2 >> \o BigEndian3(address[t])
                                                   \o << data[t] >>),
                          CsHigh(t) >>

C6_Witness ==
    /\ Came(MainCaller, "write_byte")
    /\ address[MainCaller] = 66036
    /\ data[MainCaller] = 38
    /\ trace[MainCaller][2].bytes = << 2, 1, 1, 244, 38 >>

\* C7: a read_byte(a) that returned has issued exactly /CS low, one bus write
\* of the 4 bytes [0x03, a div 65536, (a div 256) mod 256, a mod 256], one bus
\* read of 1 byte, /CS high; it returns that byte as an integer in 0..255; and
\* from the header write to the deassert /CS is low and the chip has seen
\* nothing but this call's events.
C7_ReadTrace ==
    \A t \in Callers :
        /\ Came(t, "read_byte") =>
              /\ Len(trace[t]) = 4
              /\ trace[t][1] = CsLow(t)
              /\ trace[t][2] = SpiWriteEvent(t, << 3 >> \o BigEndian3(address[t]))
              /\ trace[t][3].kind = "read"
              /\ Len(trace[t][3].bytes) = 1
              /\ IsByte(trace[t][3].bytes[1])
              /\ trace[t][4] = CsHigh(t)
              /\ result[t].value = IntValue(trace[t][3].bytes[1])
        /\ pc[t] \in {"r137", "r139", "r141"} =>
              /\ cs = 0
              /\ window = trace[t]

C7_Witness ==
    /\ Came(MainCaller, "read_byte")
    /\ address[MainCaller] = 500
    /\ trace[MainCaller][2].bytes = << 3, 0, 1, 244 >>
    /\ 500 \in DOMAIN lastWritten
    /\ result[MainCaller].value = IntValue(38)

\* content of cell a of the chip
Content(a) == MemAt(mem, fill, a)

C8_Idle ==
    (\A t \in Callers : pc[t] = "idle") =>
        /\ DOMAIN mem = DOMAIN lastWritten
        /\ \A a \in DOMAIN lastWritten : mem[a] = lastWritten[a]
        /\ \A t \in Callers :
              Came(t, "read_byte") => result[t].value = IntValue(Content(address[t]))

C8_Step ==
    /\ DOMAIN mem \subseteq DOMAIN mem'
    /\ \A a \in DOMAIN mem' :
          (a \notin DOMAIN mem \/ mem'[a] # mem[a]) =>
             \E t \in Callers :
                /\ pc[t] = "w118"
                /\ address[t] = a
                /\ mem'[a] = data[t]
    /\ fill' = fill

\* C8: whenever no call is in progress the chip holds, at every address written
\* so far, the data of the last write_byte to it, and a read_byte that returned
\* has returned the content of its address; a cell changes only in the bus
\* write of a write_byte to that very address: a write_byte to another address
\* and every step of read_byte leave it as it is.
C8_Frame == [] C8_Idle /\ [][C8_Step]_vars

C8_Witness ==
    /\ Came(MainCaller, "read_byte")
    /\ address[MainCaller] = 500
    /\ DOMAIN lastWritten = {500, 66036}
    /\ lastWritten[500] = 38
    /\ lastWritten[66036] = 255
    /\ result[MainCaller].value = IntValue(38)

(***************************************************************************)
(* The address encoding over the whole address range: the device has been  *)
(* constructed and its thread is in one call of write_byte or read_byte     *)
(* with any valid address.                                                 *)
(***************************************************************************)
\* the state in which __init__ leaves the program
Constructed ==
    /\ cs = 1
    /\ constructed = TRUE
    /\ slept = 50
    /\ value_read = NoValue
    /\ window = << >>
    /\ chipActive = TRUE
    /\ chipMode = _MODE_BYTE
    /\ mem = << >>
    /\ lastWritten = << >>
    /\ lock = "free"

InitEnc ==
    /\ Constructed
    /\ fill = 0
    /\ \E m \in {"write_byte", "read_byte"} :
          /\ op = [t \in Callers |-> IF t = MainCaller THEN m ELSE "none"]
          /\ pc = [t \in Callers |->
                      IF t # MainCaller THEN "idle"
                      ELSE IF m = "write_byte" THEN "w99" ELSE "r125"]
    /\ \E a \in 0 .. _MAX_ADDRESS :
          address = [t \in Callers |-> IF t = MainCaller THEN a ELSE 0]
    /\ data = [t \in Callers |-> 0]
    /\ address_byte = [t \in Callers |-> << >>]
    /\ result = [t \in Callers |-> IF t = MainCaller THEN Running ELSE NoCall]
    /\ trace = [t \in Callers |-> << >>]

NextEnc == WriteStep(MainCaller) \/ ReadStep(MainCaller)

SpecEnc == InitEnc /\ [][NextEnc]_vars

\* the address bytes of a read or write transaction on the bus
OnBus(e) == SubSeq(e.bytes, 2, 4)

\* C4: every read or write transaction that write_byte or read_byte puts on
\* the bus for a valid address a carries a as the 3 bytes
\* [a div 65536, (a div 256) mod 256, a mod 256]: each is in 0..255, the first
\* is 0 or 1, 0 goes out as [0,0,0] and 131071 as [1,255,255], and the bytes
\* determine a (the chip's decoding of them gives a back).
C4_Encoding ==
    \A t \in Callers : \A i \in 1..Len(trace[t]) :
        (trace[t][i].kind = "write" /\ InRange(address[t])) =>
            LET b == OnBus(trace[t][i])
            IN /\ Len(trace[t][i].bytes) \in {4, 5}
               /\ Len(b) = 3
               /\ b = BigEndian3(address[t])
               /\ \A k \in 1..3 : IsByte(b[k])
               /\ b[1] \in {0, 1}
               /\ address[t] = 0 => b = << 0, 0, 0 >>
               /\ address[t] = 131071 => b = << 1, 255, 255 >>
               /\ (b[1] * 65536) + (b[2] * 256) + b[3] = address[t]
               /\ ChipAddress(trace[t][i].bytes) = address[t]

C4_Witness ==
    /\ op[MainCaller] = "read_byte"
    /\ address[MainCaller] = 131071
    /\ pc[MainCaller] = "r139"
    /\ Len(trace[MainCaller]) = 2
    /\ OnBus(trace[MainCaller][2]) = << 1, 255, 255 >>

(***************************************************************************)
(* Two threads calling one constructed device, their statements            *)
(* interleaved freely.                                                     *)
(***************************************************************************)
InitConc ==
    /\ Constructed
    /\ fill \in FloatingBytes
    /\ pc = [t \in Callers |-> "idle"]
    /\ op = [t \in Callers |-> IF t = MainCaller THEN "__init__" ELSE "none"]
    /\ address = [t \in Callers |-> 0]
    /\ data = [t \in Callers |-> 0]
    /\ address_byte = [t \in Callers |-> << >>]
    /\ result = [t \in Callers |->
                    IF t = MainCaller THEN Returned(NoValue) ELSE NoCall]
    /\ trace = [t \in Callers |->
                   IF t = MainCaller THEN InitTrace(t) ELSE << >>]

ConcWrite(t) == \E a \in ConcAddresses, d \in ConcData :
                   write_byte(t, a, d) /\ UNCHANGED lock

ConcRead(t) == \E a \in ConcAddresses : read_byte(t, a) /\ UNCHANGED lock

NextConc ==
    \E t \in Callers :
        \/ ConcWrite(t)
        \/ ConcRead(t)
        \/ WriteStep(t)
        \/ ReadStep(t)

SpecConc == InitConc /\ [][NextConc]_vars

(***************************************************************************)
(* The same two threads, each call made with the application's mutex held  *)
(* from before the call until after it has returned or raised.             *)
(***************************************************************************)
MutexWrite(t) == \E a \in ConcAddresses, d \in MutexData :
                    /\ lock = "free"
                    /\ lock' = t
                    /\ write_byte(t, a, d)

MutexRead(t) == \E a \in ConcAddresses :
                   /\ lock = "free"
                   /\ lock' = t
                   /\ read_byte(t, a)

MutexRelease(t) ==
    /\ lock = t
    /\ pc[t] = "idle"
    /\ lock' = "free"
    /\ UNCHANGED << cs, devVars, pc, argVars, result, trace, window, chipVars,
                    lastWritten >>

NextMutex ==
    \E t \in Callers :
        \/ MutexWrite(t)
        \/ MutexRead(t)
        \/ MutexRelease(t)
        \/ WriteStep(t)
        \/ ReadStep(t)

SpecMutex == InitConc /\ [][NextMutex]_vars

(***************************************************************************)
(* Properties of the two-thread programs.                                  *)
(***************************************************************************)
\* caller t is between its /CS assert and its /CS deassert
InWindow(t) == pc[t] \in {"w118", "w120", "r137", "r139", "r141"}

\* the next statement of caller t can execute
CanStep(t) == ENABLED (WriteStep(t) \/ ReadStep(t))

\* C9: the driver never makes a caller wait: whatever statement the other
\* caller is at, also between its /CS assert and deassert, the next statement
\* of a caller inside write_byte or read_byte can execute, and a caller can
\* enter either method whenever it is idle.
C9_Unsynchronized ==
    \A t \in Callers :
        /\ pc[t] # "idle" => CanStep(t)
        /\ pc[t] = "idle" => ENABLED (ConcWrite(t) \/ ConcRead(t))

\* /CS has gone high between caller 1's read header and its 1-byte receive,
\* driven by caller 2, whose whole write_byte ran inside caller 1's window
C9_Witness ==
    /\ pc[MainCaller] = "r139"
    /\ trace[MainCaller] = << CsLow(MainCaller), SpiWriteEvent(MainCaller, << 3, 1, 255, 255 >>) >>
    /\ cs = 1
    /\ window = << >>
    /\ Came(OtherCaller, "write_byte")
    /\ trace[OtherCaller] = << CsLow(OtherCaller), SpiWriteEvent(OtherCaller, << 2, 0, 0, 0, 38 >>), CsHigh(OtherCaller) >>

\* the events of a complete transaction of caller t
WriteWindow(t) ==
    << CsLow(t),
       SpiWriteEvent(t, << 2 >> \o BigEndian3(address[t]) \o << data[t] >>) >>

ReadWindow(t, b) ==
    << CsLow(t),
       SpiWriteEvent(t, << 3 >> \o BigEndian3(address[t])),
       SpiReadEvent(t, << b >>) >>

C10_Exclusive ==
    /\ \A t \in Callers : pc[t] # "idle" => lock = t
    /\ \A t, u \in Callers : (pc[t] # "idle" /\ pc[u] # "idle") => t = u
    /\ \A i \in 1..Len(window) : window[i].by = lock
    /\ \A t \in Callers : InWindow(t) => (cs = 0 /\ window = trace[t])
    /\ (\A t \in Callers : ~InWindow(t)) => (cs = 1 /\ window = << >>)

C10_Step ==
    /\ \A t \in Callers :
          (pc[t] = "w120" /\ pc'[t] = "idle") =>
              /\ window = WriteWindow(t)
              /\ Content(address[t])' = data[t]
    /\ \A t \in Callers :
          (pc[t] = "r141" /\ pc'[t] = "r143") =>
              \E b \in 0..255 : window = ReadWindow(t, b)
    /\ \A t \in Callers :
          (pc[t] = "r145" /\ pc'[t] = "idle") =>
              /\ result'[t].status = "returned"
              /\ address[t] \in DOMAIN lastWritten =>
                    result'[t].value = IntValue(lastWritten[address[t]])

\* C10: with every call made under the one mutex, at most one caller is inside
\* a method, every event the chip sees between a /CS assert and the following
\* deassert is the lock holder's and the window that a deassert closes is one
\* complete write or read transaction of that caller; /CS is high outside the
\* windows; and a read_byte(a) returns the data of the last write_byte to a
\* that returned before it, by whichever caller.
C10_Serialized == [] C10_Exclusive /\ [][C10_Step]_vars

C10_Witness ==
    /\ Came(MainCaller, "write_byte")
    /\ address[MainCaller] = 131071
    /\ data[MainCaller] = 38
    /\ pc[OtherCaller] = "r141"
    /\ lock = OtherCaller
    /\ address[OtherCaller] = 131071
    /\ window = ReadWindow(OtherCaller, 38)
    /\ lastWritten[131071] = 38

(***************************************************************************)
(* Framing of the bus transfers by /CS in the single-threaded program.     *)
(***************************************************************************)
\* caller t issues a bus transfer in this step
Transfers(t) ==
    /\ Len(trace'[t]) = Len(trace[t]) + 1
    /\ trace'[t][Len(trace'[t])].kind \in {"write", "read"}

C11_Idle ==
    \A t \in Callers :
        (constructed /\ pc[t] = "idle" /\ result[t].status = "returned")
            => (cs = 1 /\ window = << >>)

C11_Step ==
    \A t \in Callers :
        Transfers(t) =>
            /\ cs = 0
            /\ cs' = 0
            /\ chipActive
            /\ window' = Append(window, trace'[t][Len(trace'[t])])

\* C11: every bus write and bus read of the constructor, write_byte and
\* read_byte happens while /CS is low and is seen by the chip inside the
\* current /CS-low window, and /CS is high whenever the constructor or a
\* method has returned normally.
C11_Framed == [] C11_Idle /\ [][C11_Step]_vars

C11_Witness ==
    /\ Came(MainCaller, "write_byte")
    /\ address[MainCaller] = 0
    /\ data[MainCaller] = 255
    /\ Len(trace[MainCaller]) = 3
    /\ trace[MainCaller][2].kind = "write"
    /\ cs = 1
    /\ 131071 \in DOMAIN lastWritten

(***************************************************************************)
(* Transport errors.  self.spi.write and self.spi.read can raise; neither  *)
(* method catches anything, so the exception leaves the method at the      *)
(* statement that raised.  A transfer that fails clocks nothing into the   *)
(* chip.                                                                   *)
(***************************************************************************)
\* transport errors that may pile up inside one /CS-low window
MaxFaults == 1

FaultAddresses == {0, 131071, 131072}
FaultData == {38, 255, 256}

ErrTransport == "OSError: transport error"

SpiWriteErrorEvent(t, buf) == [by |-> t, kind |-> "write_error", bytes |-> buf]
SpiReadErrorEvent(t) == [by |-> t, kind |-> "read_error", bytes |-> << >>]

IsError(e) == e.kind \in {"write_error", "read_error"}

FaultsInWindow == Cardinality({i \in 1..Len(window) : IsError(window[i])})

\* a transfer of caller t raises
SpiFail(t, e) ==
    /\ FaultsInWindow < MaxFaults
    /\ Log(t, e)
    /\ window' = IF cs = 0 THEN Append(window, e) ELSE window
    /\ UNCHANGED << cs, chipVars >>

\* variant: the bus write is attempted again after it has raised
Write118FaultRetry(t) ==
    /\ pc[t] = "w118"
    /\ ByteArrayOk(WriteFrame(address_byte[t], data[t]))
    /\ Len(trace[t]) < 3
    /\ SpiFail(t, SpiWriteErrorEvent(t, WriteFrame(address_byte[t], data[t])))
    /\ UNCHANGED << pc, result, devVars, argVars, lastWritten, lock >>

Write118Fault(t) ==
    /\ pc[t] = "w118"
    /\ ByteArrayOk(WriteFrame(address_byte[t], data[t]))
    /\ SpiFail(t, SpiWriteErrorEvent(t, WriteFrame(address_byte[t], data[t])))
    /\ Raise(t, ErrTransport)
    /\ UNCHANGED << devVars, argVars, lastWritten, lock >>

Read137Fault(t) ==
    /\ pc[t] = "r137"
    /\ ByteArrayOk(ReadFrame(address_byte[t]))
    /\ SpiFail(t, SpiWriteErrorEvent(t, ReadFrame(address_byte[t])))
    /\ Raise(t, ErrTransport)
    /\ UNCHANGED << devVars, argVars, lastWritten, lock >>

Read139Fault(t) ==
    /\ pc[t] = "r139"
    /\ SpiFail(t, SpiReadErrorEvent(t))
    /\ Raise(t, ErrTransport)
    /\ UNCHANGED << devVars, argVars, lastWritten, lock >>

FaultWrite == \E a \in FaultAddresses, d \in FaultData :
                 write_byte(MainCaller, a, d) /\ UNCHANGED lock

FaultRead == \E a \in FaultAddresses : read_byte(MainCaller, a) /\ UNCHANGED lock

NextFault ==
    \/ FaultWrite
    \/ FaultRead
    \/ WriteStep(MainCaller)
    \/ ReadStep(MainCaller)
    \/ Write118Fault(MainCaller)
    \/ Read137Fault(MainCaller)
    \/ Read139Fault(MainCaller)

SpecFault == InitConc /\ [][NextFault]_vars

\* C12: after every call that ended in an error, a validation error or a
\* transport error, /CS is high and the chip's window is closed, as after a
\* call that returned.
C12_Unwound ==
    \A t \in Callers :
        (pc[t] = "idle" /\ result[t].status = "raised")
            => (cs = 1 /\ window = << >>)

\* number of events of trace s whose kind is in kinds
Count(s, kinds) == Cardinality({i \in 1..Len(s) : s[i].kind \in kinds})

\* C13: a call of write_byte attempts at most one bus write and no bus read, a
\* call of read_byte at most one bus write and at most one bus read; a
\* transfer that raised is the last event of its call, the call has ended and
\* its outcome is that transport error; and no call ends in the transport
\* error without a transfer having raised.
C13_NoRetry ==
    \A t \in Callers :
        /\ op[t] = "write_byte" =>
              /\ Count(trace[t], {"write", "write_error"}) <= 1
              /\ Count(trace[t], {"read", "read_error"}) = 0
        /\ op[t] = "read_byte" =>
              /\ Count(trace[t], {"write", "write_error"}) <= 1
              /\ Count(trace[t], {"read", "read_error"}) <= 1
        /\ \A i \in 1..Len(trace[t]) :
              IsError(trace[t][i]) =>
                 /\ i = Len(trace[t])
                 /\ pc[t] = "idle"
                 /\ result[t] = Raised(ErrTransport)
        /\ result[t] = Raised(ErrTransport) =>
              /\ trace[t] # << >>
              /\ IsError(trace[t][Len(trace[t])])

C13_Witness ==
    /\ Failed(MainCaller, "read_byte", ErrTransport)
    /\ address[MainCaller] = 131071
    /\ trace[MainCaller] = << CsLow(MainCaller),
                              SpiWriteEvent(MainCaller, << 3, 1, 255, 255 >>),
                              SpiReadErrorEvent(MainCaller) >>

(***************************************************************************)
(* Instructions on the bus, the validation errors and the settle delay.    *)
(***************************************************************************)
\* the frames with instruction byte c among the events of trace s
Frames(s, c) == {i \in 1..Len(s) : s[i].kind = "write" /\ s[i].bytes[1] = c}

\* C14: the first byte of every frame the driver transmits is 0x01, 0x02 or
\* 0x03 and never 0x3B, 0x38, 0xFF or 0x05; a frame with 0x01 is [0x01, 0x00]
\* and occurs only in the constructor, which has sent exactly one when it
\* returns; write_byte sends only 0x02 and read_byte only 0x03; and the
\* chip's MODE register holds byte mode from the constructor's return on.
C14_Opcodes ==
    /\ \A t \in Callers : \A i \in 1..Len(trace[t]) :
          trace[t][i].kind = "write" =>
             /\ trace[t][i].bytes[1] \in {_WRMR, _WRITE, _READ}
             /\ trace[t][i].bytes[1] \notin {_EDIO, _EQIO, _RSTIO, _RDMR}
             /\ trace[t][i].bytes[1] = _WRMR =>
                   /\ op[t] = "__init__"
                   /\ trace[t][i].bytes = << _WRMR, _MODE_BYTE >>
             /\ op[t] = "write_byte" => trace[t][i].bytes[1] = _WRITE
             /\ op[t] = "read_byte" => trace[t][i].bytes[1] = _READ
    /\ \A t \in Callers :
          /\ Cardinality(Frames(trace[t], _WRMR)) <= 1
          /\ (constructed /\ op[t] = "__init__") =>
                Cardinality(Frames(trace[t], _WRMR)) = 1
    /\ Stream(window) # << >> => Stream(window)[1] \in {_WRMR, _WRITE, _READ}
    /\ constructed => chipMode = _MODE_BYTE

C14_Witness ==
    /\ Came(MainCaller, "read_byte")
    /\ address[MainCaller] = 0
    /\ Frames(trace[MainCaller], _READ) = {2}
    /\ Frames(trace[MainCaller], _WRMR) = {}
    /\ DOMAIN lastWritten = {0}
    /\ lastWritten[0] = 255
    /\ chipMode = _MODE_BYTE

\* C15: a write_byte that ended in a validation error ended in the
\* address-range error exactly when its address is outside 0..131071,
\* whatever its data, and in the value-range error exactly when its address
\* is inside and its data outside 0..255; the two errors differ.
C15_WhichError ==
    /\ ErrAddressWrite # ErrDataWrite
    /\ \A t \in Callers :
          (pc[t] = "idle" /\ op[t] = "write_byte") =>
             /\ ~InRange(address[t]) <=> result[t] = Raised(ErrAddressWrite)
             /\ (InRange(address[t]) /\ ~IsByte(data[t]))
                   <=> result[t] = Raised(ErrDataWrite)

C15_Witness ==
    /\ Failed(MainCaller, "write_byte", ErrAddressWrite)
    /\ address[MainCaller] = 131072
    /\ data[MainCaller] = 256

\* the statements of the constructor before the settle delay
BeforeDelay == {"i79", "i86", "i87", "i88", "i91", "i92", "i93", "i94"}

\* C16: the constructor has not waited before the /CS deassert that ends the
\* mode set; when it is about to wait, /CS is high and all its pin and bus
\* events are done; it has waited 50 microseconds when it returns; and
\* whenever a caller is in or past a write_byte or read_byte, or has issued a
\* read or write transaction, the wait is over.
C16_Settled ==
    /\ pc[MainCaller] \in BeforeDelay => (slept = 0 /\ ~constructed)
    /\ pc[MainCaller] = "i94" =>
          /\ cs = 1
          /\ window = << >>
          /\ trace[MainCaller] = InitTrace(MainCaller)
    /\ constructed => slept >= 50
    /\ \A t \in Callers :
          /\ op[t] \in {"write_byte", "read_byte"} => slept >= 50
          /\ (\E i \in 1..Len(trace[t]) : IsAccess(trace[t][i])) => slept >= 50

C16_Witness ==
    /\ op[MainCaller] = "read_byte"
    /\ pc[MainCaller] = "r135"
    /\ trace[MainCaller] = << >>
    /\ lastWritten = << >>
    /\ slept = 50
    /\ cs = 1

====
